---- MODULE Spec2Model ----
(***************************************************************************)
(* Sequerizer: a fluent query builder in front of a Sequelize table.       *)
(* One builder instance (class Sequerizer, src/lib/Sequerizer.js) bound to *)
(* one table handle.  Builder calls mutate the instance synchronously; a   *)
(* terminal call builds the options, hands one request to the driver and   *)
(* is suspended until the driver answers.                                  *)
(***************************************************************************)
EXTENDS Integers, Sequences, FiniteSets, TLC

VARIABLES
  conditions,    \* this.conditions : column -> condition
  orders,        \* this.orders     : sequence of <<column, direction>>
  attributes,    \* this.attributes : a JS value (an array unless misused)
  options,       \* this.options    : the overlay, option key -> value
  throwError,    \* this.throwError
  limitValue,    \* this.limitValue : JS value, null or a number
  offsetValue,   \* this.offsetValue
  inspectValue,  \* this.inspectValue : last value handed to inspect()
  rows,          \* the table behind the driver, in insertion order
  nextId,        \* the table's auto-increment counter
  pc,            \* per flow: "idle", "chained", or the terminal call awaited
  pending,       \* per flow: the request the driver is working on
  outcome,       \* per flow: what the last call returned or raised
  calls          \* number of API calls the callers still make

vars == <<conditions, orders, attributes, options, throwError, limitValue,
          offsetValue, inspectValue, rows, nextId, pc, pending, outcome, calls>>

builder == <<conditions, orders, attributes, options, throwError, limitValue,
             offsetValue>>

table == <<rows, nextId>>

-----------------------------------------------------------------------------
(* Bounds of the model *)

MaxCalls == 2      \* API calls per run
MaxChain == 3      \* API calls per run of a query chain

Flows == {1, 2}
Cols == {"name", "phone"}
Vals == {1, 2}
Identifier == "users"
DriverMsgs == {"timeout", "denied"}

-----------------------------------------------------------------------------
(* JavaScript values, tagged so that typeof can be computed *)

JsUndef == [type |-> "undefined"]
JsNull == [type |-> "object", null |-> TRUE]
JsNum(n) == [type |-> "number", num |-> n]
JsStr(s) == [type |-> "string", str |-> s]
JsBool(b) == [type |-> "boolean", bool |-> b]
JsArr(s) == [type |-> "object", arr |-> s]
JsObj(o) == [type |-> "object", obj |-> o]

TypeOf(v) == v.type
IsArr(v) == "arr" \in DOMAIN v
IsObj(v) == "obj" \in DOMAIN v
IsNum(v) == "num" \in DOMAIN v

\* {} : the object without keys
EmptyObj == [k \in {} |-> 0]

\* Object.assign(target, source) for plain objects
Assign(target, source) ==
  [k \in (DOMAIN target) \cup (DOMAIN source) |->
     IF k \in DOMAIN source THEN source[k] ELSE target[k]]

\* obj[key] = value
Put(obj, key, value) == Assign(obj, [k \in {key} |-> value])

\* a condition on one column: equality, or membership (Op.in)
Eq(v) == [eq |-> v]
In(values) == [in |-> values]

-----------------------------------------------------------------------------
(* Errors: the class name, the message template and the message of the     *)
(* error that caused it ("" when there is none)                            *)

Err(name, text, cause) == [name |-> name, text |-> text, cause |-> cause]

Returned(op, val) == [op |-> op, status |-> "return", val |-> val]
Raised(op, err) == [op |-> op, status |-> "raise", err |-> err]
This == [this |-> TRUE]

\* the error a failing driver call throws, with the driver's message
DriverError(msg) == Err("Error", msg, "")
NoRequest == [op |-> "none"]
NoReply == [state |-> "none"]
Answered(val) == [state |-> "ok", val |-> val]
Failed(msg) == [state |-> "failed", msg |-> msg]
NoOutcome == [op |-> "none", status |-> "none"]

-----------------------------------------------------------------------------
(* Inputs the calls are tried with *)

WhereArgs ==
  {<<JsStr("name"), 1>>, <<JsStr("name"), 2>>, <<JsObj([phone |-> Eq(2)]), 1>>,
   <<JsNull, 1>>}
InArgs == {JsArr(<<1, 2>>), JsStr("1"), JsNull}
OrderArgs ==
  {<<"name", JsStr("desc")>>, <<"phone", JsUndef>>, <<"name", JsStr("up")>>,
   <<"phone", JsStr("Asc")>>}
OrderLists == {<<<<"phone", "DESC">>>>}
ColumnArgs == {JsArr(<<"name">>), JsNull, JsStr("name")}
LimitArgs == {JsNum(1), JsNum(2), JsStr("1")}
OffsetArgs == {JsNum(1), JsNull}
OptionArgs ==
  {<<JsStr("where"), [ref |-> "opt", v |-> [phone |-> Eq(1)]]>>,
   <<JsStr("attributes"), JsArr(<<"phone">>)>>,
   <<JsStr("order"), [ref |-> "val", v |-> <<<<"name", "DESC">>>>]>>,
   <<JsObj([limit |-> JsNum(1), offset |-> JsNum(0)]), JsUndef>>,
   <<JsUndef, JsUndef>>}
DataArgs == {JsObj([name |-> 1, phone |-> 1]), JsStr("x")}
BulkArgs == {JsArr(<<[name |-> 2, phone |-> 1], [name |-> 2, phone |-> 2]>>)}
Payloads == {[phone |-> 2]}
ConditionArgs == {JsNull, JsObj([name |-> Eq(1)])}
GetArgs ==
  {<<JsArr(<<>>), JsNull>>, <<JsArr(<<>>), JsObj([name |-> Eq(1)])>>,
   <<JsArr(<<"phone">>), JsNull>>, <<JsStr("x"), JsNull>>}
Ids == {1, 99}
CallbackResults == {JsBool(TRUE), JsBool(FALSE), JsUndef}

InitTables ==
  {<<>>,
   <<[id |-> 1, name |-> 1, phone |-> 1], [id |-> 2, name |-> 2, phone |-> 2]>>}

-----------------------------------------------------------------------------
(* The state after construction (constructor, lines 10-27) *)

Init ==
  /\ conditions = EmptyObj
  /\ inspectValue = JsNull
  /\ orders = <<>>
  /\ attributes = JsArr(<<>>)
  /\ options = EmptyObj
  /\ throwError = FALSE
  /\ limitValue = JsNull
  /\ offsetValue = JsNull
  /\ rows \in InitTables
  /\ nextId = Len(rows) + 1
  /\ pc = [f \in Flows |-> "idle"]
  /\ pending = [f \in Flows |-> NoRequest]
  /\ outcome = [f \in Flows |-> NoOutcome]
  /\ calls = MaxCalls

-----------------------------------------------------------------------------
(* Validator utility: inspect(data).mustBeAn(type) *)

KnownTypes ==
  {"undefined", "object", "boolean", "number", "bigint", "string", "symbol", "function"}

\* the error mustBeAn raises for the inspected value, or "ok"
mustBeAn(value, type, messageIfError) ==
  IF type \notin KnownTypes THEN Err("Error", "Unknown type", "")
  ELSE IF TypeOf(value) # type THEN Err("TypeError", messageIfError, "")
  ELSE [name |-> "ok"]

Passes(check) == check.name = "ok"

-----------------------------------------------------------------------------
(* How a call begins and ends for the caller *)

\* the builder can be called: nothing awaited by this flow, budget left
Ready(f) == pc[f] \in {"idle", "chained"} /\ calls > 0

\* a synchronous call ends: it returned or raised, no request in flight
Ends(f, result) ==
  /\ pc' = [pc EXCEPT ![f] = "idle"]
  /\ outcome' = [outcome EXCEPT ![f] = result]
  /\ calls' = calls - 1
  /\ UNCHANGED pending

\* a terminal call hands a request to the driver and is suspended
Awaits(f, op, request) ==
  /\ pc' = [pc EXCEPT ![f] = op]
  /\ pending' = [pending EXCEPT ![f] = request]
  /\ outcome' = [outcome EXCEPT ![f] = NoOutcome]
  /\ calls' = calls - 1

\* the awaited call settles
Settles(f, result) ==
  /\ pc' = [pc EXCEPT ![f] = "idle"]
  /\ pending' = [pending EXCEPT ![f] = NoRequest]
  /\ outcome' = [outcome EXCEPT ![f] = result]
  /\ UNCHANGED calls

-----------------------------------------------------------------------------
(* Clearing utilities *)

resetThrowError == throwError' = FALSE

\* clear() that forgets to empty the conditions
clearKeepsConditions ==
  /\ UNCHANGED conditions
  /\ options' = EmptyObj
  /\ attributes' = JsArr(<<>>)
  /\ orders' = <<>>
  /\ throwError' = FALSE
  /\ limitValue' = JsNull
  /\ offsetValue' = JsNull

clear ==
  /\ conditions' = EmptyObj
  /\ options' = EmptyObj
  /\ attributes' = JsArr(<<>>)
  /\ orders' = <<>>
  /\ throwError' = FALSE
  /\ limitValue' = JsNull
  /\ offsetValue' = JsNull

-----------------------------------------------------------------------------
(* Options builder utilities *)

\* where that starts the conditions afresh on every call
whereReplaces(f, columnOrConditions, value) ==
  /\ Ready(f)
  /\ conditions' =
       IF TypeOf(columnOrConditions) = "string"
         THEN Put(EmptyObj, columnOrConditions.str, Eq(value))
       ELSE IF TypeOf(columnOrConditions) = "object" /\ IsObj(columnOrConditions)
         THEN columnOrConditions.obj
       ELSE conditions
  /\ Ends(f, Returned("where", This))
  /\ UNCHANGED <<orders, attributes, options, throwError, limitValue, offsetValue,
                 inspectValue, table>>

\* where(columnOrConditions, value)
where(f, columnOrConditions, value) ==
  /\ Ready(f)
  /\ conditions' =
       IF TypeOf(columnOrConditions) = "string"
         THEN Put(conditions, columnOrConditions.str, Eq(value))
       ELSE IF TypeOf(columnOrConditions) = "object" /\ IsObj(columnOrConditions)
         THEN Assign(conditions, columnOrConditions.obj)
       ELSE conditions
  /\ Ends(f, Returned("where", This))
  /\ UNCHANGED <<orders, attributes, options, throwError, limitValue, offsetValue,
                 inspectValue, table>>

\* whereIn that stores the array under the first column whatever the column
whereInOnFirstColumn(f, column, values) ==
  /\ Ready(f)
  /\ inspectValue' = values
  /\ LET check == mustBeAn(values, "object", "values in whereIn method must be an array")
     IN IF Passes(check)
          THEN /\ conditions' = Put(conditions, "name", In(values))
               /\ Ends(f, Returned("whereIn", This))
          ELSE /\ UNCHANGED conditions
               /\ Ends(f, Raised("whereIn", check))
  /\ UNCHANGED <<orders, attributes, options, throwError, limitValue, offsetValue, table>>

\* whereIn(column, values)
whereIn(f, column, values) ==
  /\ Ready(f)
  /\ inspectValue' = values
  /\ LET check == mustBeAn(values, "object", "values in whereIn method must be an array")
     IN IF Passes(check)
          THEN /\ conditions' = Put(conditions, column, In(values))
               /\ Ends(f, Returned("whereIn", This))
          ELSE /\ UNCHANGED conditions
               /\ Ends(f, Raised("whereIn", check))
  /\ UNCHANGED <<orders, attributes, options, throwError, limitValue, offsetValue, table>>

\* String.prototype.toUpperCase on the direction strings in use
toUpperCase(s) ==
  CASE s = "ASC" -> "ASC"
    [] s = "asc" -> "ASC"
    [] s = "Asc" -> "ASC"
    [] s = "desc" -> "DESC"
    [] s = "Desc" -> "DESC"
    [] s = "DESC" -> "DESC"
    [] s = "up" -> "UP"
    [] OTHER -> s

\* orderBy that keeps only the pair of the latest call
orderByReplaces(f, column, directionArg) ==
  /\ Ready(f)
  /\ LET direction == IF directionArg = JsUndef THEN JsStr("ASC") ELSE directionArg
     IN IF TypeOf(direction) # "string"
          THEN /\ UNCHANGED orders
               /\ Ends(f, Raised("orderBy",
                      Err("TypeError", "direction.toUpperCase is not a function", "")))
        ELSE IF toUpperCase(direction.str) \notin {"ASC", "DESC"}
          THEN /\ UNCHANGED orders
               /\ Ends(f, Raised("orderBy",
                      Err("ModelError", "Order available: ASC or DESC", "")))
        ELSE /\ orders' = <<<<column, toUpperCase(direction.str)>>>>
             /\ Ends(f, Returned("orderBy", This))
  /\ UNCHANGED <<conditions, attributes, options, throwError, limitValue, offsetValue,
                 inspectValue, table>>

\* orderBy(column, direction = "ASC")
orderBy(f, column, directionArg) ==
  /\ Ready(f)
  /\ LET direction == IF directionArg = JsUndef THEN JsStr("ASC") ELSE directionArg
     IN IF TypeOf(direction) # "string"
          THEN /\ UNCHANGED orders
               /\ Ends(f, Raised("orderBy",
                      Err("TypeError", "direction.toUpperCase is not a function", "")))
        ELSE IF toUpperCase(direction.str) \notin {"ASC", "DESC"}
          THEN /\ UNCHANGED orders
               /\ Ends(f, Raised("orderBy",
                      Err("ModelError", "Order available: ASC or DESC", "")))
        ELSE /\ orders' = Append(orders, <<column, toUpperCase(direction.str)>>)
             /\ Ends(f, Returned("orderBy", This))
  /\ UNCHANGED <<conditions, attributes, options, throwError, limitValue, offsetValue,
                 inspectValue, table>>

\* setOrders(orders): the list is replaced by the caller's array; an overlay
\* entry that pointed at the old array keeps the old array
setOrders(f, newOrders) ==
  /\ Ready(f)
  /\ orders' = newOrders
  /\ options' =
       IF "order" \in DOMAIN options /\ options["order"].ref = "orders"
         THEN Put(options, "order", [ref |-> "val", v |-> orders])
         ELSE options
  /\ Ends(f, Returned("setOrders", This))
  /\ UNCHANGED <<conditions, attributes, throwError, limitValue, offsetValue,
                 inspectValue, table>>

\* needColumns(columns)
needColumns(f, columns) ==
  /\ Ready(f)
  /\ inspectValue' = columns
  /\ LET check == mustBeAn(columns, "object", "columns in needColumns method must be an array")
     IN IF Passes(check)
          THEN /\ attributes' = columns
               /\ Ends(f, Returned("needColumns", This))
          ELSE /\ UNCHANGED attributes
               /\ Ends(f, Raised("needColumns", check))
  /\ UNCHANGED <<conditions, orders, options, throwError, limitValue, offsetValue, table>>

\* limit that stores the value before it inspects it
limitAssignsFirst(f, value) ==
  /\ Ready(f)
  /\ inspectValue' = value
  /\ limitValue' = value
  /\ LET check == mustBeAn(value, "number", "limit in limit method must be a number")
     IN IF Passes(check)
          THEN Ends(f, Returned("limit", This))
          ELSE Ends(f, Raised("limit", check))
  /\ UNCHANGED <<conditions, orders, attributes, options, throwError, offsetValue, table>>

\* limit(limitValue)
limit(f, value) ==
  /\ Ready(f)
  /\ inspectValue' = value
  /\ LET check == mustBeAn(value, "number", "limit in limit method must be a number")
     IN IF Passes(check)
          THEN /\ limitValue' = value
               /\ Ends(f, Returned("limit", This))
          ELSE /\ UNCHANGED limitValue
               /\ Ends(f, Raised("limit", check))
  /\ UNCHANGED <<conditions, orders, attributes, options, throwError, offsetValue, table>>

\* offset(offset)
offset(f, value) ==
  /\ Ready(f)
  /\ inspectValue' = value
  /\ LET check == mustBeAn(value, "number", "Offset must be a number")
     IN IF Passes(check)
          THEN /\ offsetValue' = value
               /\ Ends(f, Returned("offset", This))
          ELSE /\ UNCHANGED offsetValue
               /\ Ends(f, Raised("offset", check))
  /\ UNCHANGED <<conditions, orders, attributes, options, throwError, limitValue, table>>

\* option(keyOrOptions, value)
option(f, keyOrOptions, value) ==
  /\ Ready(f)
  /\ options' =
       IF TypeOf(keyOrOptions) = "string" THEN Put(options, keyOrOptions.str, value)
       ELSE IF TypeOf(keyOrOptions) = "object" /\ IsObj(keyOrOptions)
         THEN Assign(options, keyOrOptions.obj)
       ELSE options
  /\ Ends(f, Returned("option", This))
  /\ UNCHANGED <<conditions, orders, attributes, throwError, limitValue, offsetValue,
                 inspectValue, table>>

\* withError(value = true)
withError(f, value) ==
  /\ Ready(f)
  /\ throwError' = value
  /\ Ends(f, Returned("withError", This))
  /\ UNCHANGED <<conditions, orders, attributes, options, limitValue, offsetValue,
                 inspectValue, table>>

\* buildOptions(): the overlay after the call.  Reading attributes.length
\* of null throws after the where key has been written.
buildOptionsThrows == attributes = JsNull

NullLength == "Cannot read properties of null (reading 'length')"

Length(v) == IF IsArr(v) THEN Len(v.arr) ELSE 0

\* buildOptions() that forgets the offset
buildOptionsDropsOffset ==
  LET o1 == IF "where" \notin DOMAIN options
              THEN Put(options, "where", [ref |-> "conditions"]) ELSE options
      o2 == IF Length(attributes) > 0 /\ "attributes" \notin DOMAIN o1
              THEN Put(o1, "attributes", attributes) ELSE o1
      o3 == IF Len(orders) > 0 /\ "order" \notin DOMAIN o2
              THEN Put(o2, "order", [ref |-> "orders"]) ELSE o2
      o4 == IF limitValue # JsNull /\ "limit" \notin DOMAIN o3
              THEN Put(o3, "limit", limitValue) ELSE o3
  IN IF buildOptionsThrows THEN o1 ELSE o4

\* buildOptions() that writes where without asking the overlay first
buildOptionsOverwritesWhere ==
  LET o1 == Put(options, "where", [ref |-> "conditions"])
      o2 == IF Length(attributes) > 0 /\ "attributes" \notin DOMAIN o1
              THEN Put(o1, "attributes", attributes) ELSE o1
      o3 == IF Len(orders) > 0 /\ "order" \notin DOMAIN o2
              THEN Put(o2, "order", [ref |-> "orders"]) ELSE o2
      o4 == IF limitValue # JsNull /\ "limit" \notin DOMAIN o3
              THEN Put(o3, "limit", limitValue) ELSE o3
      o5 == IF offsetValue # JsNull /\ "offset" \notin DOMAIN o4
              THEN Put(o4, "offset", offsetValue) ELSE o4
  IN IF buildOptionsThrows THEN o1 ELSE o5

buildOptions ==
  LET o1 == IF "where" \notin DOMAIN options
              THEN Put(options, "where", [ref |-> "conditions"]) ELSE options
      o2 == IF Length(attributes) > 0 /\ "attributes" \notin DOMAIN o1
              THEN Put(o1, "attributes", attributes) ELSE o1
      o3 == IF Len(orders) > 0 /\ "order" \notin DOMAIN o2
              THEN Put(o2, "order", [ref |-> "orders"]) ELSE o2
      o4 == IF limitValue # JsNull /\ "limit" \notin DOMAIN o3
              THEN Put(o3, "limit", limitValue) ELSE o3
      o5 == IF offsetValue # JsNull /\ "offset" \notin DOMAIN o4
              THEN Put(o4, "offset", offsetValue) ELSE o4
  IN IF buildOptionsThrows THEN o1 ELSE o5

\* the options object as the driver reads it: references followed
Sent(opts) ==
  [k \in DOMAIN opts |->
     IF k = "where"
       THEN (IF opts[k].ref = "conditions" THEN conditions ELSE opts[k].v)
     ELSE IF k = "order"
       THEN (IF opts[k].ref = "orders" THEN orders ELSE opts[k].v)
     ELSE opts[k]]

-----------------------------------------------------------------------------
(* The driver: what the Sequelize table does with a request.  The options  *)
(* are the ones it was handed, opts.where a map column -> condition.       *)

Holds(cond, value) ==
  IF "eq" \in DOMAIN cond THEN value = cond.eq
  ELSE IsArr(cond.in) /\ \E i \in 1..Len(cond.in.arr) : cond.in.arr[i] = value

Matches(row, w) == \A c \in DOMAIN w : c \in DOMAIN row /\ Holds(w[c], row[c])

\* row a sorts strictly before row b under the order list
Before(a, b, ord) ==
  \E i \in 1..Len(ord) :
    /\ \A j \in 1..(i - 1) : a[ord[j][1]] = b[ord[j][1]]
    /\ IF ord[i][2] = "ASC" THEN a[ord[i][1]] < b[ord[i][1]]
                            ELSE a[ord[i][1]] > b[ord[i][1]]

\* stable insertion of r into the sorted sequence s
InsertSorted(r, s, ord) ==
  LET later == {i \in 1..Len(s) : Before(r, s[i], ord)}
      at == IF later = {} THEN Len(s) + 1
            ELSE CHOOSE i \in later : \A j \in later : i <= j
  IN SubSeq(s, 1, at - 1) \o <<r>> \o SubSeq(s, at, Len(s))

RECURSIVE SortBy(_, _)
SortBy(s, ord) ==
  IF s = <<>> THEN <<>>
  ELSE InsertSorted(s[Len(s)], SortBy(SubSeq(s, 1, Len(s) - 1), ord), ord)

Min(a, b) == IF a <= b THEN a ELSE b

Page(s, opts) ==
  LET off == IF "offset" \in DOMAIN opts THEN opts["offset"].num ELSE 0
      last == IF "limit" \in DOMAIN opts THEN Min(Len(s), off + opts["limit"].num)
              ELSE Len(s)
  IN SubSeq(s, off + 1, last)

Project(row, opts) ==
  IF "attributes" \in DOMAIN opts /\ IsArr(opts["attributes"])
    THEN LET cs == {opts["attributes"].arr[i] : i \in 1..Len(opts["attributes"].arr)}
         IN [c \in cs \cap DOMAIN row |-> row[c]]
    ELSE row

Selected(rws, opts) ==
  LET w == IF "where" \in DOMAIN opts THEN opts["where"] ELSE EmptyObj
  IN SelectSeq(rws, LAMBDA r : Matches(r, w))

\* table.findAll(options)
FindAll(rws, opts) ==
  LET sorted == IF "order" \in DOMAIN opts THEN SortBy(Selected(rws, opts), opts["order"])
                ELSE Selected(rws, opts)
      page == Page(sorted, opts)
  IN [i \in 1..Len(page) |-> Project(page[i], opts)]

\* table.findOne(options): at most one row, null when there is none
FindOne(rws, opts) ==
  LET one == IF "limit" \in DOMAIN opts THEN opts ELSE Put(opts, "limit", JsNum(1))
      found == FindAll(rws, one)
  IN IF found = <<>> THEN JsNull ELSE [row |-> found[1]]

\* table.findByPk(id)
FindByPk(rws, id) ==
  LET found == SelectSeq(rws, LAMBDA r : r.id = id)
  IN IF found = <<>> THEN JsNull ELSE [row |-> found[1]]

NewRow(data, id) == [id |-> id, name |-> data.name, phone |-> data.phone]

\* the rows table.create / table.bulkCreate add, ids taken from the counter
Created(list, id) == [i \in 1..Len(list) |-> NewRow(list[i], id + i - 1)]

\* rows that match the where of the options, at most options.limit of them
Affected(rws, opts) ==
  LET ids == {r.id : r \in {Selected(rws, opts)[i] : i \in 1..Len(Selected(rws, opts))}}
      hit == SelectSeq(rws, LAMBDA r : r.id \in ids)
      kept == IF "limit" \in DOMAIN opts THEN SubSeq(hit, 1, Min(Len(hit), opts["limit"].num))
              ELSE hit
  IN {kept[i].id : i \in 1..Len(kept)}

\* table.update(payload, options)
Updated(rws, payload, opts) ==
  [i \in 1..Len(rws) |->
     IF rws[i].id \in Affected(rws, opts) THEN Assign(rws[i], payload) ELSE rws[i]]

\* table.destroy(options)
Destroyed(rws, opts) ==
  IF "truncate" \in DOMAIN opts THEN <<>>
  ELSE SelectSeq(rws, LAMBDA r : r.id \notin Affected(rws, opts))

\* table.findOrCreate({ where: data }): the rows that already match
Existing(rws, data) ==
  SelectSeq(rws, LAMBDA r : \A c \in DOMAIN data : r[c] = data[c])

-----------------------------------------------------------------------------
(* Middleware utilities *)

\* verifySync / verify that check the type and then return the builder
\* whatever the callback gave
VerifiedNeverRefuses(f, op, verified, message) ==
  /\ inspectValue' = verified
  /\ LET check == mustBeAn(verified, "boolean", message)
     IN IF ~Passes(check)
          THEN /\ pc' = [pc EXCEPT ![f] = "idle"]
               /\ outcome' = [outcome EXCEPT ![f] = Raised(op, check)]
        ELSE /\ pc' = [pc EXCEPT ![f] = "chained"]
             /\ outcome' = [outcome EXCEPT ![f] = Returned(op, This)]
  /\ UNCHANGED <<builder, table, pending>>

\* what verifySync / verify do with the value the callback gave
Verified(f, op, verified, message) ==
  /\ inspectValue' = verified
  /\ LET check == mustBeAn(verified, "boolean", message)
     IN IF ~Passes(check)
          THEN /\ pc' = [pc EXCEPT ![f] = "idle"]
               /\ outcome' = [outcome EXCEPT ![f] = Raised(op, check)]
        ELSE IF ~verified.bool
          THEN /\ pc' = [pc EXCEPT ![f] = "idle"]
               /\ outcome' = [outcome EXCEPT ![f] =
                                Raised(op, Err("ModelError", "Unverified state occured", ""))]
        ELSE /\ pc' = [pc EXCEPT ![f] = "chained"]
             /\ outcome' = [outcome EXCEPT ![f] = Returned(op, This)]
  /\ UNCHANGED <<builder, table, pending>>

\* verifySync(callback): the callback runs inside the call
verifySync(f, verified) ==
  /\ Ready(f)
  /\ calls' = calls - 1
  /\ Verified(f, "verifySync", verified, "verifySync callback must return boolean value")

\* verify(callback): the call is suspended until the callback has resolved
verify(f) ==
  /\ Ready(f)
  /\ Awaits(f, "verify", NoRequest)
  /\ UNCHANGED <<builder, inspectValue, table>>

verifyDone(f, verified) ==
  /\ pc[f] = "verify"
  /\ UNCHANGED calls
  /\ Verified(f, "verify", verified, "verify callback must return boolean value")

-----------------------------------------------------------------------------
(* The driver at work: a request in flight is answered with the result of  *)
(* the operation on the table, or fails with one of DriverMsgs.            *)

InFlight(f) == pending[f].op # "none" /\ pending[f].reply = NoReply

RowsAfter(req) ==
  CASE req.op \in {"create", "bulkCreate"} -> rows \o Created(req.data, nextId)
    [] req.op = "findOrCreate" ->
         IF Existing(rows, req.where) = <<>>
           THEN Append(rows, NewRow(req.where, nextId)) ELSE rows
    [] req.op = "update" -> Updated(rows, req.payload, req.opts)
    [] req.op = "destroy" -> Destroyed(rows, req.opts)
    [] OTHER -> rows

\* a truncate restarts the auto-increment counter
NextIdAfter(req) ==
  CASE req.op \in {"create", "bulkCreate"} -> nextId + Len(req.data)
    [] req.op = "findOrCreate" ->
         IF Existing(rows, req.where) = <<>> THEN nextId + 1 ELSE nextId
    [] req.op = "destroy" -> IF "truncate" \in DOMAIN req.opts THEN 1 ELSE nextId
    [] OTHER -> nextId

\* table.count(options)
Count(rws, opts) == Len(Selected(rws, opts))

Result(req) ==
  CASE req.op = "count" -> JsNum(Count(rows, req.opts))
    [] req.op = "create" -> [row |-> Created(req.data, nextId)[1]]
    [] req.op = "bulkCreate" -> [rows |-> Created(req.data, nextId)]
    [] req.op = "findAll" -> [rows |-> FindAll(rows, req.opts)]
    [] req.op = "findOne" -> FindOne(rows, req.opts)
    [] req.op = "findByPk" -> FindByPk(rows, req.id)
    [] req.op = "findOrCreate" ->
         IF Existing(rows, req.where) = <<>>
           THEN [item |-> NewRow(req.where, nextId), created |-> TRUE]
           ELSE [item |-> Existing(rows, req.where)[1], created |-> FALSE]
    [] req.op \in {"update", "destroy"} ->
         [count |-> IF "truncate" \in DOMAIN req.opts THEN Len(rows)
                    ELSE Cardinality(Affected(rows, req.opts))]

driverAnswers(f) ==
  /\ InFlight(f)
  /\ rows' = RowsAfter(pending[f])
  /\ nextId' = NextIdAfter(pending[f])
  /\ pending' = [pending EXCEPT ![f].reply = Answered(Result(pending[f]))]
  /\ UNCHANGED <<builder, inspectValue, pc, outcome, calls>>

driverFails(f, m) ==
  /\ InFlight(f)
  /\ pending' = [pending EXCEPT ![f].reply = Failed(m)]
  /\ UNCHANGED <<builder, inspectValue, table, pc, outcome, calls>>

\* the awaited driver call has settled and the call resumes
Resumes(f, op) == pc[f] = op /\ pending[f].reply # NoReply

Request(op, fields) == Assign([op |-> op, reply |-> NoReply], fields)

-----------------------------------------------------------------------------
(* CRUD: each terminal call is a call step, up to the driver request, and  *)
(* a completion step, from the driver's reply on.                          *)

\* the catch block of create()
createCatch(error) ==
  Err("CreateError", "Error creating ${this.identifier}: ${error.message}", error.text)

\* create(data)
create(f, data) ==
  /\ Ready(f)
  /\ inspectValue' = data
  /\ LET check == mustBeAn(data, "object", "Inserted data must have type of object")
     IN IF Passes(check)
          THEN Awaits(f, "create", Request("create", [data |-> <<data.obj>>]))
          ELSE Ends(f, Raised("create", check))
  /\ UNCHANGED <<builder, table>>

createDone(f) ==
  /\ Resumes(f, "create")
  /\ LET reply == pending[f].reply
     IN IF reply.state = "ok"
          THEN Settles(f, Returned("create", reply.val))
          ELSE Settles(f, Raised("create", createCatch(DriverError(reply.msg))))
  /\ UNCHANGED <<builder, inspectValue, table>>

\* the catch block of insert()
insertCatch(error) ==
  Err("CreateError", "Error inserting into ${this.identifier}: ${error.message}", error.text)

\* insert(data) without the Array.isArray branch
insertAlwaysCreates(f, data) ==
  /\ Ready(f)
  /\ inspectValue' = data
  /\ LET check == mustBeAn(data, "object",
                           "Inserted data must be an object or array of objects")
     IN IF ~Passes(check) THEN Ends(f, Raised("insert", check))
        ELSE IF IsArr(data)
          THEN Awaits(f, "insert", Request("create", [data |-> data.arr]))
        ELSE Awaits(f, "insert", Request("create", [data |-> <<data.obj>>]))
  /\ UNCHANGED <<builder, table>>

\* insert(data): one row, or an array of rows in one bulkCreate
insert(f, data) ==
  /\ Ready(f)
  /\ inspectValue' = data
  /\ LET check == mustBeAn(data, "object",
                           "Inserted data must be an object or array of objects")
     IN IF ~Passes(check) THEN Ends(f, Raised("insert", check))
        ELSE IF IsArr(data)
          THEN Awaits(f, "insert", Request("bulkCreate", [data |-> data.arr]))
        ELSE Awaits(f, "insert", Request("create", [data |-> <<data.obj>>]))
  /\ UNCHANGED <<builder, table>>

insertDone(f) ==
  /\ Resumes(f, "insert")
  /\ LET reply == pending[f].reply
     IN IF reply.state = "ok"
          THEN Settles(f, Returned("insert", reply.val))
          ELSE Settles(f, Raised("insert", insertCatch(DriverError(reply.msg))))
  /\ UNCHANGED <<builder, inspectValue, table>>

\* the overlay once an explicit conditions object has been written into it
WithWhere(opts, given) ==
  IF given # JsNull /\ TypeOf(given) = "object"
    THEN Put(opts, "where", [ref |-> "arg", v |-> given.obj]) ELSE opts

\* the overlay once explicit columns have been written into it
WithColumns(opts, columns) ==
  IF Length(columns) > 0 THEN Put(opts, "attributes", columns) ELSE opts

\* what reading attributes.length of null throws
NullLengthError == Err("TypeError", NullLength, "")

\* a catch block of get() that loses the message of what it caught
getCatchDropsMessage(error) == Err("ReadError", "Fail fetching data", "")

\* the catch block of get()
getCatch(error) == Err("ReadError", "Fail fetching data: ${error.message}", error.text)

\* get() that sends the explicit conditions, or none, never the accumulated
getForgetsConditions(f, columns, given) ==
  /\ Ready(f)
  /\ inspectValue' = columns
  /\ LET check == mustBeAn(columns, "object", "columns in whereIn method must be an array")
     IN IF ~Passes(check)
          THEN /\ Ends(f, Raised("get", check))
               /\ UNCHANGED options
        ELSE IF buildOptionsThrows
          THEN /\ options' = buildOptions
               /\ Ends(f, Raised("get", getCatch(NullLengthError)))
        ELSE /\ options' = WithColumns(WithWhere(
                              Put(buildOptions, "where", [ref |-> "arg", v |-> EmptyObj]),
                              given), columns)
             /\ Awaits(f, "get", Request("findAll", [opts |-> Sent(options')]))
  /\ UNCHANGED <<conditions, orders, attributes, throwError, limitValue, offsetValue, table>>

\* get(columns = [], conditions = null)
get(f, columns, given) ==
  /\ Ready(f)
  /\ inspectValue' = columns
  /\ LET check == mustBeAn(columns, "object", "columns in whereIn method must be an array")
     IN IF ~Passes(check)
          THEN /\ Ends(f, Raised("get", check))
               /\ UNCHANGED options
        ELSE IF buildOptionsThrows
          THEN /\ options' = buildOptions
               /\ Ends(f, Raised("get", getCatch(NullLengthError)))
        ELSE /\ options' = WithColumns(WithWhere(buildOptions, given), columns)
             /\ Awaits(f, "get", Request("findAll", [opts |-> Sent(options')]))
  /\ UNCHANGED <<conditions, orders, attributes, throwError, limitValue, offsetValue, table>>

getDone(f) ==
  /\ Resumes(f, "get")
  /\ LET reply == pending[f].reply
     IN IF reply.state = "ok"
          THEN /\ clear
               /\ Settles(f, Returned("get", reply.val))
          ELSE /\ Settles(f, Raised("get", getCatch(DriverError(reply.msg))))
               /\ UNCHANGED builder
  /\ UNCHANGED <<inspectValue, table>>

\* the catch block of getWhere()
getWhereCatch(error) == Err("ReadError", "Fail fetching data: ${error.message}", error.text)

\* getWhere(conditions = null)
getWhere(f, given) ==
  /\ Ready(f)
  /\ IF attributes = JsNull
       THEN Ends(f, Raised("getWhere", getWhereCatch(NullLengthError)))
       ELSE LET w == [where |-> IF given # JsNull THEN given.obj ELSE conditions]
                withOptions == IF Length(attributes) > 0
                                 THEN Put(w, "attributes", attributes) ELSE w
            IN Awaits(f, "getWhere", Request("findAll", [opts |-> withOptions]))
  /\ UNCHANGED <<builder, inspectValue, table>>

getWhereDone(f) ==
  /\ Resumes(f, "getWhere")
  /\ LET reply == pending[f].reply
     IN IF reply.state = "ok"
          THEN /\ clear
               /\ Settles(f, Returned("getWhere", reply.val))
          ELSE /\ Settles(f, Raised("getWhere", getWhereCatch(DriverError(reply.msg))))
               /\ UNCHANGED builder
  /\ UNCHANGED <<inspectValue, table>>

\* the catch block of getOrCreate(): a CreateError passes unchanged
\* a catch block of getOrCreate() that wraps whatever it caught
getOrCreateCatchWrapsAll(error) ==
  Err("ModelError", "Error creating or finding ${this.identifier}: ${error.message}",
      error.text)

getOrCreateCatch(error) ==
  IF error.name = "CreateError" THEN error
  ELSE Err("ModelError", "Error creating or finding ${this.identifier}: ${error.message}",
           error.text)

\* getOrCreate(data)
getOrCreate(f, data) ==
  /\ Ready(f)
  /\ inspectValue' = data
  /\ LET check == mustBeAn(data, "object", "Inserted data must have type of object")
     IN IF Passes(check)
          THEN Awaits(f, "getOrCreate", Request("findOrCreate", [where |-> data.obj]))
          ELSE Ends(f, Raised("getOrCreate", check))
  /\ UNCHANGED <<builder, table>>

\* getOrCreate() that returns the data it was given, not the row
getOrCreateDoneReturnsData(f) ==
  /\ Resumes(f, "getOrCreate")
  /\ LET reply == pending[f].reply
     IN IF reply.state = "ok" /\ ~reply.val.created /\ throwError
          THEN /\ Settles(f, Raised("getOrCreate", getOrCreateCatch(
                    Err("CreateError",
                        "${this.identifier} already exists with data ${JSON.stringify(data)}",
                        ""))))
               /\ UNCHANGED throwError
        ELSE IF reply.state = "ok"
          THEN /\ resetThrowError
               /\ Settles(f, Returned("getOrCreate", [row |-> NewRow(pending[f].where, 0)]))
        ELSE /\ Settles(f, Raised("getOrCreate", getOrCreateCatch(DriverError(reply.msg))))
             /\ UNCHANGED throwError
  /\ UNCHANGED <<conditions, orders, attributes, options, limitValue, offsetValue,
                 inspectValue, table>>

getOrCreateDone(f) ==
  /\ Resumes(f, "getOrCreate")
  /\ LET reply == pending[f].reply
     IN IF reply.state = "ok" /\ ~reply.val.created /\ throwError
          THEN /\ Settles(f, Raised("getOrCreate", getOrCreateCatch(
                    Err("CreateError",
                        "${this.identifier} already exists with data ${JSON.stringify(data)}",
                        ""))))
               /\ UNCHANGED throwError
        ELSE IF reply.state = "ok"
          THEN /\ resetThrowError
               /\ Settles(f, Returned("getOrCreate", [row |-> reply.val.item]))
        ELSE /\ Settles(f, Raised("getOrCreate", getOrCreateCatch(DriverError(reply.msg))))
             /\ UNCHANGED throwError
  /\ UNCHANGED <<conditions, orders, attributes, options, limitValue, offsetValue,
                 inspectValue, table>>

\* a catch block of find() that wraps whatever it caught
findCatchWrapsAll(error) ==
  Err("ReadError", "Error finding ${this.identifier} with id ${id}: ${error.message}",
      error.text)

\* the catch block of find(): a NotFoundError passes unchanged
findCatch(error) ==
  IF error.name = "NotFoundError" THEN error
  ELSE Err("ReadError", "Error finding ${this.identifier} with id ${id}: ${error.message}",
           error.text)

\* find(id)
find(f, id) ==
  /\ Ready(f)
  /\ Awaits(f, "find", Request("findByPk", [id |-> id]))
  /\ UNCHANGED <<builder, inspectValue, table>>

findDone(f) ==
  /\ Resumes(f, "find")
  /\ LET reply == pending[f].reply
     IN IF reply.state = "ok" /\ reply.val = JsNull /\ throwError
          THEN /\ Settles(f, Raised("find", findCatch(
                    Err("NotFoundError", "${this.identifier} not found with id ${id}", ""))))
               /\ UNCHANGED throwError
        ELSE IF reply.state = "ok"
          THEN /\ resetThrowError
               /\ Settles(f, Returned("find", reply.val))
        ELSE /\ Settles(f, Raised("find", findCatch(DriverError(reply.msg))))
             /\ UNCHANGED throwError
  /\ UNCHANGED <<conditions, orders, attributes, options, limitValue, offsetValue,
                 inspectValue, table>>

\* the catch block of first(): a NotFoundError passes unchanged; for any
\* other error the message of the ReadError reads id, which first() does
\* not declare, so building it throws a ReferenceError
firstCatch(error) ==
  IF error.name = "NotFoundError" THEN error
  ELSE Err("ReferenceError", "id is not defined", "")

\* first()
first(f) ==
  /\ Ready(f)
  /\ options' = buildOptions
  /\ IF buildOptionsThrows
       THEN Ends(f, Raised("first", firstCatch(NullLengthError)))
       ELSE Awaits(f, "first", Request("findOne", [opts |-> Sent(options')]))
  /\ UNCHANGED <<conditions, orders, attributes, throwError, limitValue, offsetValue,
                 inspectValue, table>>

firstDone(f) ==
  /\ Resumes(f, "first")
  /\ LET reply == pending[f].reply
     IN IF reply.state = "ok" /\ reply.val = JsNull /\ throwError
          THEN /\ Settles(f, Raised("first", firstCatch(
                    Err("NotFoundError", "${this.identifier} not found", ""))))
               /\ UNCHANGED builder
        ELSE IF reply.state = "ok"
          THEN /\ clear
               /\ Settles(f, Returned("first", reply.val))
        ELSE /\ Settles(f, Raised("first", firstCatch(DriverError(reply.msg))))
             /\ UNCHANGED builder
  /\ UNCHANGED <<inspectValue, table>>

\* the catch block of exists()
existsCatch(error) == Err("ReadError", "Error in exists method: ${error.message}", error.text)

\* exists() that keeps a where the options already hold
existsKeepsWhere(f, given) ==
  /\ Ready(f)
  /\ inspectValue' = given
  /\ LET check == mustBeAn(given, "object", "conditions in exists method must be an object")
     IN IF ~Passes(check)
          THEN /\ Ends(f, Raised("exists", check))
               /\ UNCHANGED options
        ELSE IF buildOptionsThrows
          THEN /\ options' = buildOptions
               /\ Ends(f, Raised("exists", existsCatch(NullLengthError)))
        ELSE /\ options' = (IF given # JsNull /\ "where" \notin DOMAIN options
                              THEN Put(buildOptions, "where", [ref |-> "arg", v |-> given.obj])
                              ELSE buildOptions)
             /\ Awaits(f, "exists", Request("findOne", [opts |-> Sent(options'), given |-> given]))
  /\ UNCHANGED <<conditions, orders, attributes, throwError, limitValue, offsetValue, table>>

\* exists(conditions = null)
exists(f, given) ==
  /\ Ready(f)
  /\ inspectValue' = given
  /\ LET check == mustBeAn(given, "object", "conditions in exists method must be an object")
     IN IF ~Passes(check)
          THEN /\ Ends(f, Raised("exists", check))
               /\ UNCHANGED options
        ELSE IF buildOptionsThrows
          THEN /\ options' = buildOptions
               /\ Ends(f, Raised("exists", existsCatch(NullLengthError)))
        ELSE /\ options' = (IF given # JsNull
                              THEN Put(buildOptions, "where", [ref |-> "arg", v |-> given.obj])
                              ELSE buildOptions)
             /\ Awaits(f, "exists", Request("findOne", [opts |-> Sent(options'), given |-> given]))
  /\ UNCHANGED <<conditions, orders, attributes, throwError, limitValue, offsetValue, table>>

existsDone(f) ==
  /\ Resumes(f, "exists")
  /\ LET reply == pending[f].reply
     IN IF reply.state = "ok"
          THEN /\ clear
               /\ Settles(f, Returned("exists", JsBool(reply.val # JsNull)))
          ELSE /\ Settles(f, Raised("exists", existsCatch(DriverError(reply.msg))))
               /\ UNCHANGED builder
  /\ UNCHANGED <<inspectValue, table>>

\* the catch block of update(): UpdateError is called without new, and a
\* class constructor called that way throws a TypeError
updateCatch(error) ==
  Err("TypeError", "Class constructor UpdateError cannot be invoked without 'new'", "")

\* update(payload, conditions = null).  The driver call is not awaited.  A
\* driver that throws inside the call (thrown # "") reaches the catch
\* block; otherwise clear() runs at once and the driver's promise is handed
\* back as the result of the call.
update(f, payload, given, thrown) ==
  /\ Ready(f)
  /\ IF buildOptionsThrows
       THEN /\ options' = buildOptions
            /\ Ends(f, Raised("update", NullLengthError))
            /\ UNCHANGED <<conditions, orders, attributes, throwError, limitValue,
                           offsetValue>>
     ELSE IF thrown # ""
       THEN /\ options' = WithWhere(buildOptions, given)
            /\ Ends(f, Raised("update", updateCatch(DriverError(thrown))))
            /\ UNCHANGED <<conditions, orders, attributes, throwError, limitValue,
                           offsetValue>>
     ELSE /\ clear
          /\ Awaits(f, "update",
                    Request("update", [payload |-> payload,
                                       opts |-> Sent(WithWhere(buildOptions, given))]))
  /\ UNCHANGED <<inspectValue, table>>

\* the driver's promise settles, and with it the promise update() returned:
\* a rejection reaches the caller as the driver raised it
updateDone(f) ==
  /\ Resumes(f, "update")
  /\ LET reply == pending[f].reply
     IN IF reply.state = "ok"
          THEN Settles(f, Returned("update", reply.val))
          ELSE Settles(f, Raised("update", DriverError(reply.msg)))
  /\ UNCHANGED <<builder, inspectValue, table>>

\* the catch block of delete()
deleteCatch(error) ==
  Err("DeleteError", "Error deleting from ${this.identifier}: ${error.message}", error.text)

\* delete(conditions = null)
delete(f, given) ==
  /\ Ready(f)
  /\ IF buildOptionsThrows
       THEN /\ options' = buildOptions
            /\ Ends(f, Raised("delete", NullLengthError))
       ELSE /\ options' = WithWhere(buildOptions, given)
            /\ Awaits(f, "delete", Request("destroy", [opts |-> Sent(options')]))
  /\ UNCHANGED <<conditions, orders, attributes, throwError, limitValue, offsetValue,
                 inspectValue, table>>

deleteDone(f) ==
  /\ Resumes(f, "delete")
  /\ LET reply == pending[f].reply
     IN IF reply.state = "ok"
          THEN /\ clear
               /\ Settles(f, Returned("delete", reply.val))
          ELSE /\ Settles(f, Raised("delete", deleteCatch(DriverError(reply.msg))))
               /\ UNCHANGED builder
  /\ UNCHANGED <<inspectValue, table>>

\* the catch block of truncate()
truncateCatch(error) ==
  Err("DeleteError", "Error truncating ${this.identifier}: ${error.message}", error.text)

\* truncate()
truncate(f) ==
  /\ Ready(f)
  /\ Awaits(f, "truncate",
            Request("destroy", [opts |-> [where |-> EmptyObj, truncate |-> TRUE]]))
  /\ UNCHANGED <<builder, inspectValue, table>>

truncateDone(f) ==
  /\ Resumes(f, "truncate")
  /\ LET reply == pending[f].reply
     IN IF reply.state = "ok"
          THEN Settles(f, Returned("truncate", JsUndef))
          ELSE Settles(f, Raised("truncate", truncateCatch(DriverError(reply.msg))))
  /\ UNCHANGED <<builder, inspectValue, table>>

-----------------------------------------------------------------------------
(* Sequential use: one flow drives the instance, one call at a time *)

\* count that counts every row whatever the conditions
countIgnoresConditions(f, given) ==
  /\ Ready(f)
  /\ Awaits(f, "count", Request("count", [opts |-> [where |-> EmptyObj], given |-> given]))
  /\ UNCHANGED <<builder, inspectValue, table>>

\* count(conditions = null): the number of rows that match the conditions,
\* of all rows when none are given
count(f, given) ==
  /\ Ready(f)
  /\ Awaits(f, "count",
            Request("count", [opts |-> [where |-> IF given # JsNull THEN given.obj ELSE EmptyObj],
                              given |-> given]))
  /\ UNCHANGED <<builder, inspectValue, table>>

countDone(f) ==
  /\ Resumes(f, "count")
  /\ LET reply == pending[f].reply
     IN IF reply.state = "ok"
          THEN Settles(f, Returned("count", reply.val))
          ELSE Settles(f, Raised("count",
                 Err("ReadError", "Error counting ${this.identifier}: ${error.message}",
                     reply.msg)))
  /\ UNCHANGED <<builder, inspectValue, table>>

Call(f) ==
  \/ \E a \in WhereArgs : where(f, a[1], a[2])
  \/ \E v \in InArgs : whereIn(f, "name", v)
  \/ \E a \in OrderArgs : orderBy(f, a[1], a[2])
  \/ \E o \in OrderLists : setOrders(f, o)
  \/ \E c \in ColumnArgs : needColumns(f, c)
  \/ \E n \in LimitArgs : limit(f, n)
  \/ \E n \in OffsetArgs : offset(f, n)
  \/ \E a \in OptionArgs : option(f, a[1], a[2])
  \/ \E b \in BOOLEAN : withError(f, b)
  \/ \E r \in CallbackResults : verifySync(f, r)
  \/ verify(f)
  \/ \E d \in DataArgs : create(f, d)
  \/ \E d \in DataArgs \cup BulkArgs : insert(f, d)
  \/ \E a \in GetArgs : get(f, a[1], a[2])
  \/ \E d \in DataArgs : getOrCreate(f, d)
  \/ \E g \in ConditionArgs : getWhere(f, g)
  \/ \E i \in Ids : find(f, i)
  \/ first(f)
  \/ \E g \in ConditionArgs \cup {JsStr("x")} : exists(f, g)
  \/ \E p \in Payloads, g \in ConditionArgs, t \in {"", "denied"} : update(f, p, g, t)
  \/ \E g \in ConditionArgs : delete(f, g)
  \/ truncate(f)

Resume(f) ==
  \/ \E r \in CallbackResults : verifyDone(f, r)
  \/ createDone(f)
  \/ insertDone(f)
  \/ getDone(f)
  \/ getOrCreateDone(f)
  \/ getWhereDone(f)
  \/ findDone(f)
  \/ firstDone(f)
  \/ existsDone(f)
  \/ updateDone(f)
  \/ deleteDone(f)
  \/ truncateDone(f)

Driver(f) ==
  \/ driverAnswers(f)
  \/ \E m \in DriverMsgs : driverFails(f, m)

Next == \E f \in {1} : Call(f) \/ Resume(f) \/ Driver(f)

Spec == Init /\ [][Next]_vars

-----------------------------------------------------------------------------
(* Query chains: one caller chains builder calls and ends with get or     *)
(* count, on tables of three and of six rows.                              *)

ChainTables ==
  {[i \in 1..3 |-> [id |-> i, name |-> i, phone |-> i]],
   [i \in 1..6 |-> [id |-> i, name |-> ((i - 1) % 3) + 1, phone |-> i]]}

\* where(a, b), where({a: b}) and where({name: b, phone: d})
WhereForms ==
  {<<JsStr(a), b>> : a \in Cols, b \in Vals}
    \cup {<<JsObj([k \in {a} |-> Eq(b)]), 0>> : a \in Cols, b \in Vals}
    \cup {<<JsObj([name |-> Eq(b), phone |-> Eq(d)]), 0>> : b \in Vals, d \in Vals}
ChainInArgs == {JsArr(<<1, 2>>)}
ChainLimits == {JsNum(2), JsNum(4)}
ChainOffsets == {JsNum(1), JsNum(3)}
CountArgs == {JsNull, JsObj([name |-> Eq(1)])}

ChainInit ==
  /\ conditions = EmptyObj
  /\ inspectValue = JsNull
  /\ orders = <<>>
  /\ attributes = JsArr(<<>>)
  /\ options = EmptyObj
  /\ throwError = FALSE
  /\ limitValue = JsNull
  /\ offsetValue = JsNull
  /\ rows \in ChainTables
  /\ nextId = Len(rows) + 1
  /\ pc = [f \in Flows |-> "idle"]
  /\ pending = [f \in Flows |-> NoRequest]
  /\ outcome = [f \in Flows |-> NoOutcome]
  /\ calls = MaxChain

ChainCall(f) ==
  \/ \E w \in WhereForms : where(f, w[1], w[2])
  \/ \E c \in Cols, v \in ChainInArgs : whereIn(f, c, v)
  \/ \E n \in ChainLimits : limit(f, n)
  \/ \E n \in ChainOffsets : offset(f, n)
  \/ get(f, JsArr(<<>>), JsNull)
  \/ \E g \in CountArgs : count(f, g)

ChainResume(f) == getDone(f) \/ countDone(f)

ChainNext == \E f \in {1} : ChainCall(f) \/ ChainResume(f) \/ driverAnswers(f)

SpecChain == ChainInit /\ [][ChainNext]_vars

-----------------------------------------------------------------------------
(* Two callers share the builder instance: a call of one may start while   *)
(* the call of the other is awaiting the driver.                           *)

SharedConditions == {JsObj([name |-> Eq(1)]), JsObj([name |-> Eq(3)])}
SharedData == {JsObj([name |-> 1, phone |-> 1]), JsObj([name |-> 3, phone |-> 3])}

SharedCall(f) ==
  \/ \E g \in SharedConditions : exists(f, g)
  \/ \E d \in SharedData : getOrCreate(f, d)

SharedResume(f) == existsDone(f) \/ getOrCreateDone(f)

SharedNext == \E f \in Flows : SharedCall(f) \/ SharedResume(f) \/ Driver(f)

SpecShared == Init /\ [][SharedNext]_vars

-----------------------------------------------------------------------------
(* Two flows chain where(...).get() on the shared instance.  A chain runs  *)
(* to its driver call without a break; the other flow runs while the call  *)
(* is awaited.  A flow tags the conditions it builds with its own number.  *)

\* flow g is in the middle of a chain: it has built, and not yet called get
MidChain(g) == pc[g] = "idle" /\ outcome[g] = Returned("where", This)

RaceCall(f) ==
  /\ \A g \in Flows \ {f} : ~MidChain(g)
  /\ \/ \E c \in Cols : where(f, JsStr(c), f)
     \/ get(f, JsArr(<<>>), JsNull)

RaceNext == \E f \in Flows : RaceCall(f) \/ getDone(f) \/ Driver(f)

SpecRace == ChainInit /\ [][RaceNext]_vars

-----------------------------------------------------------------------------
(* Properties *)

Defaults ==
  /\ conditions = EmptyObj
  /\ attributes = JsArr(<<>>)
  /\ orders = <<>>
  /\ limitValue = JsNull
  /\ offsetValue = JsNull
  /\ throwError = FALSE

Terminals ==
  {"create", "insert", "get", "getWhere", "find", "first", "exists", "getOrCreate",
   "update", "delete", "truncate"}

Clearing == {"get", "getWhere", "first", "exists", "update", "delete"}

\* flow f has just been handed the result of the call it awaited
Completes(f) == pc[f] \in Terminals /\ pc'[f] = "idle"

C2_OverrideLeavesNoTrace ==
  LET explicit == "where" \in DOMAIN options /\ options["where"].ref = "arg"
  IN /\ \A f \in Flows :
          (pc[f] \in {"get", "exists", "delete"} /\ explicit)
            => pending[f].opts["where"] = options["where"].v
     /\ (\A f \in Flows : pc[f] \in {"idle", "chained"}) => ~explicit

NoRow(f) == pc[f] \in {"find", "first"} /\ pending[f].reply = Answered(JsNull)

\* C4: when the lookup of find or first finds no row, the call returns
\* null if throwError is false, and raises a NotFoundError, as thrown and
\* not wrapped into a ReadError, if withError(true) set the flag before
\* the call.
C4_NotFoundPolicy ==
  [][\A f \in Flows :
       (NoRow(f) /\ pc'[f] = "idle") =>
         IF throwError
           THEN /\ outcome'[f].status = "raise"
                /\ outcome'[f].err.name = "NotFoundError"
                /\ outcome'[f].err.cause = ""
           ELSE outcome'[f] = Returned(pc[f], JsNull)]_vars

\* withError(true).find(99) has raised a NotFoundError
C4_Witness ==
  /\ outcome[1].op = "find"
  /\ outcome[1].status = "raise"
  /\ outcome[1].err.name = "NotFoundError"
  /\ rows = <<>>

\* C5 as stated: once find or getOrCreate has finished, with a row, with
\* null or with a NotFoundError, a CreateError or a wrapped driver failure,
\* throwError is false.
C5_FlagResetWhateverTheOutcome ==
  \A f \in Flows :
    (pc[f] = "idle" /\ outcome[f].op \in {"find", "getOrCreate"}
       /\ (outcome[f].status = "return"
             \/ (outcome[f].status = "raise" /\ outcome[f].err.name # "TypeError")))
      => throwError = FALSE

\* the step in which verify or verifySync hands its verdict to the caller
Verdict(f) ==
  \/ pc[f] = "verify" /\ pc'[f] # "verify"
  \/ pc[f] \in {"idle", "chained"} /\ outcome'[f].op = "verifySync" /\ calls' = calls - 1

\* C6: when the predicate of verify or verifySync gave false, the call
\* raises a ModelError, the chain ends there, no request reaches the driver
\* and the rows are as they were; when it gave true the builder is returned
\* for the chained call; and a call is chained only on a verify whose
\* predicate has completed with true.
C6_VerifyGatesTheChain ==
  [][\A f \in Flows :
       /\ (Verdict(f) /\ inspectValue' = JsBool(FALSE)) =>
            /\ outcome'[f].status = "raise"
            /\ outcome'[f].err.name = "ModelError"
            /\ pc'[f] = "idle"
            /\ pending'[f] = NoRequest
            /\ rows' = rows
       /\ (Verdict(f) /\ inspectValue' = JsBool(TRUE)) =>
            /\ outcome'[f] = Returned(outcome'[f].op, This)
            /\ pc'[f] = "chained"
       /\ pc'[f] = "chained" => (Verdict(f) /\ inspectValue' = JsBool(TRUE))
       /\ (pc'[f] \in {"create", "insert"} /\ pc[f] # pc'[f]) =>
            (pc[f] = "idle" \/ (pc[f] = "chained" /\ outcome[f].status = "return"))]_vars

\* verify() has raised the ModelError for a predicate that gave false, and
\* no request is in flight
C6_Witness ==
  /\ outcome[1].op = "verify"
  /\ outcome[1].status = "raise"
  /\ outcome[1].err.name = "ModelError"
  /\ inspectValue = JsBool(FALSE)
  /\ pending[1] = NoRequest

\* C7 as stated: when the driver's update call fails, by throwing or by
\* rejecting, update raises an UpdateError that carries the driver's
\* message.
C7_UpdateFailureIsUpdateError ==
  \A f \in Flows :
    (outcome[f].op = "update" /\ outcome[f].status = "raise"
       /\ outcome[f].err # NullLengthError)
      => (outcome[f].err.name = "UpdateError" /\ outcome[f].err.cause \in DriverMsgs)

\* C8 as stated: first() raises a ReadError that carries the driver's
\* message when the driver fails, a NotFoundError when there is no row and
\* the flag is set, and nothing else.
C8_FirstRaisesReadError ==
  \A f \in Flows :
    (outcome[f].op = "first" /\ outcome[f].status = "raise")
      => \/ outcome[f].err.name = "NotFoundError"
         \/ outcome[f].err.name = "ReadError" /\ outcome[f].err.cause \in DriverMsgs

Wrapping == {"create", "insert", "get", "getWhere", "exists", "find", "delete", "truncate"}

\* the error class each call wraps a driver failure into
Kind(op) ==
  CASE op \in {"create", "insert"} -> "CreateError"
    [] op \in {"get", "getWhere", "exists", "find"} -> "ReadError"
    [] op \in {"delete", "truncate"} -> "DeleteError"

\* C9: when the driver call fails, create and insert raise a CreateError,
\* get, getWhere, exists and find a ReadError, delete and truncate a
\* DeleteError, each with the driver's message in it.
C9_DriverFailureIsWrapped ==
  [][\A f \in Flows :
       (pc[f] \in Wrapping /\ pending[f].reply.state = "failed" /\ pc'[f] = "idle") =>
         /\ outcome'[f].status = "raise"
         /\ outcome'[f].op = pc[f]
         /\ outcome'[f].err.name = Kind(pc[f])
         /\ outcome'[f].err.cause = pending[f].reply.msg]_vars

\* get() has raised the ReadError for a driver that failed with "denied"
C9_Witness ==
  /\ outcome[1].op = "get"
  /\ outcome[1].status = "raise"
  /\ outcome[1].err.name = "ReadError"
  /\ outcome[1].err.cause = "denied"

accumulated == <<conditions, orders, attributes, limitValue, offsetValue, throwError>>

\* C10 as stated: get, getWhere, first, exists, update and delete change
\* conditions, orders, attributes, limitValue, offsetValue and throwError
\* only once their driver call has succeeded; when it fails they are what
\* they were before the call.
C10_ResetOnlyAfterSuccess ==
  [][\A f \in Flows :
       ((pc[f] \in Clearing \/ pc'[f] \in Clearing) /\ accumulated' # accumulated)
         => (pc[f] \in Clearing /\ pending[f].reply.state = "ok")]_vars

-----------------------------------------------------------------------------
(* Builder calls *)

AnyCase == {"asc", "Asc", "ASC", "desc", "Desc", "DESC"}

\* C11: orderBy(column, direction) with direction a case variant of "asc"
\* or "desc" appends [column, uppercase direction] to the end of the order
\* list and returns the builder; with any other direction string it raises
\* a ModelError and the order list and the rest of the builder state are as
\* they were.
C11_OrderByAppendsOrRefuses ==
  [][\A f \in Flows : \A a \in OrderArgs :
       (orderBy(f, a[1], a[2]) /\ TypeOf(a[2]) = "string") =>
         IF a[2].str \in AnyCase
           THEN /\ orders' = Append(orders,
                      <<a[1], IF a[2].str \in {"asc", "Asc", "ASC"} THEN "ASC" ELSE "DESC">>)
                /\ outcome'[f] = Returned("orderBy", This)
                /\ UNCHANGED <<conditions, attributes, options, throwError, limitValue,
                               offsetValue>>
           ELSE /\ outcome'[f].status = "raise"
                /\ outcome'[f].err.name = "ModelError"
                /\ UNCHANGED builder]_vars

\* orderBy("name", "desc").orderBy("phone", "Asc") has built the list in
\* call order
C11_Witness ==
  /\ orders = <<<<"name", "DESC">>, <<"phone", "ASC">>>>
  /\ outcome[1] = Returned("orderBy", This)

\* C12: limit(v) and offset(v) with v not a number raise a TypeError and
\* leave limitValue, offsetValue, conditions, orders, attributes, the
\* overlay and throwError as they were; with a number they store exactly v
\* and change nothing else.
C12_InspectBeforeAssign ==
  [][\A f \in Flows : \A v \in LimitArgs \cup OffsetArgs :
       /\ limit(f, v) =>
            IF IsNum(v)
              THEN /\ limitValue' = v
                   /\ outcome'[f] = Returned("limit", This)
                   /\ UNCHANGED <<conditions, orders, attributes, options, throwError,
                                  offsetValue>>
              ELSE /\ outcome'[f].status = "raise"
                   /\ outcome'[f].err.name = "TypeError"
                   /\ UNCHANGED builder
       /\ offset(f, v) =>
            IF IsNum(v)
              THEN /\ offsetValue' = v
                   /\ outcome'[f] = Returned("offset", This)
                   /\ UNCHANGED <<conditions, orders, attributes, options, throwError,
                                  limitValue>>
              ELSE /\ outcome'[f].status = "raise"
                   /\ outcome'[f].err.name = "TypeError"
                   /\ UNCHANGED builder]_vars

\* offset(1).limit("1"): the limit was refused and the offset is still 1
C12_Witness ==
  /\ outcome[1].op = "limit"
  /\ outcome[1].status = "raise"
  /\ limitValue = JsNull
  /\ offsetValue = JsNum(1)

\* C13 as stated: whereIn and needColumns raise a validation error and
\* leave conditions and attributes as they were for every argument that is
\* not an array; for an array whereIn stores the membership condition on
\* the column and needColumns replaces the projection list.
C13_ArraysOnly ==
  [][\A f \in Flows : \A v \in InArgs \cup ColumnArgs :
       /\ \A c \in Cols : (outcome'[f].op = "whereIn" /\ whereIn(f, c, v)) =>
            IF IsArr(v)
              THEN /\ conditions' = Put(conditions, c, In(v))
                   /\ outcome'[f] = Returned("whereIn", This)
              ELSE /\ outcome'[f].status = "raise"
                   /\ UNCHANGED <<conditions, attributes>>
       /\ (outcome'[f].op = "needColumns" /\ needColumns(f, v)) =>
            IF IsArr(v)
              THEN /\ attributes' = v
                   /\ outcome'[f] = Returned("needColumns", This)
              ELSE /\ outcome'[f].status = "raise"
                   /\ UNCHANGED <<conditions, attributes>>]_vars

-----------------------------------------------------------------------------
(* Query chains *)

One(a, b) == [k \in {a} |-> Eq(b)]
Two(a, b, c, d) == [k \in {a, c} |-> IF k = c THEN Eq(d) ELSE Eq(b)]

\* C14: from empty conditions, where(a, b) and where({a: b}) both leave
\* {a: b}; from {a: b}, where(c, d) and where({c: d}) both leave {a: b, c: d},
\* which is also what where({a: b, c: d}) leaves from empty conditions; when
\* a = c the later value stands; and a where on one column keeps the
\* conditions on the other columns.
C14_WhereFormsAgree ==
  [][\A f \in Flows : \A a \in Cols, c \in Cols, b \in Vals, d \in Vals :
       /\ (conditions = EmptyObj
             /\ (where(f, JsStr(a), b) \/ where(f, JsObj(One(a, b)), 0)))
            => conditions' = One(a, b)
       /\ (conditions = One(a, b)
             /\ (where(f, JsStr(c), d) \/ where(f, JsObj(One(c, d)), 0)))
            => conditions' = Two(a, b, c, d)
       /\ (conditions = EmptyObj /\ a # c /\ where(f, JsObj(Two(a, b, c, d)), 0))
            => conditions' = Two(a, b, c, d)
       /\ where(f, JsStr(c), d)
            => \A k \in DOMAIN conditions \ {c} :
                 k \in DOMAIN conditions' /\ conditions'[k] = conditions[k]]_vars

\* two where calls have left {name: 1, phone: 2}
C14_Witness ==
  /\ conditions = Two("name", 1, "phone", 2)
  /\ calls = MaxChain - 2
  /\ outcome[1] = Returned("where", This)

\* the options a builder with nothing but a limit and an offset sends
Plain(l, o) ==
  Assign(Assign([where |-> EmptyObj], IF l # JsNull THEN [limit |-> l] ELSE EmptyObj),
         IF o # JsNull THEN [offset |-> o] ELSE EmptyObj)

\* rows at insertion positions o+1 .. min(o+l, n); no offset is 0, no limit n
Positions(rws, l, o) ==
  LET from == IF o # JsNull THEN o.num + 1 ELSE 1
      upto == IF l # JsNull /\ from + l.num - 1 < Len(rws) THEN from + l.num - 1
              ELSE Len(rws)
  IN [i \in 1..(IF upto < from THEN 0 ELSE upto - from + 1) |-> rws[from + i - 1]]

\* the builder holds nothing but a limit and an offset
OnlyPaging ==
  /\ conditions = EmptyObj
  /\ attributes = JsArr(<<>>)
  /\ orders = <<>>

\* C15: on a builder that holds nothing but offset o and limit l, get()
\* sends exactly {where: {}, limit: l, offset: o} and returns the rows at
\* insertion positions o+1 .. min(o+l, n) in insertion order; with a limit
\* alone it returns the first min(l, n) rows; the state, and so the result,
\* is the same whichever of offset and limit was called first.
C15_PagingByPosition ==
  [][\A f \in Flows :
       /\ (OnlyPaging /\ options = EmptyObj /\ get(f, JsArr(<<>>), JsNull))
            => pending'[f].opts = Plain(limitValue, offsetValue)
       /\ (OnlyPaging /\ pc[f] = "get" /\ pending[f].reply.state = "ok"
             /\ pending[f].opts = Plain(limitValue, offsetValue) /\ getDone(f))
            => outcome'[f] = Returned("get", [rows |-> Positions(rows, limitValue, offsetValue)])]_vars

\* offset(3).limit(2).get() on six rows has returned rows 4 and 5
C15_Witness ==
  /\ Len(rows) = 6
  /\ outcome[1] = Returned("get", [rows |-> <<rows[4], rows[5]>>])

\* C16: on a builder that holds nothing but whereIn(c, values), get()
\* returns exactly the rows whose value in column c is one of values, in
\* insertion order.
C16_WhereInSelectsMembers ==
  [][\A f \in Flows : \A c \in Cols, v \in ChainInArgs :
       /\ (conditions = EmptyObj /\ whereIn(f, c, v))
            => conditions' = [k \in {c} |-> In(v)]
       /\ (conditions = [k \in {c} |-> In(v)] /\ attributes = JsArr(<<>>) /\ orders = <<>>
             /\ limitValue = JsNull /\ offsetValue = JsNull /\ options = EmptyObj
             /\ get(f, JsArr(<<>>), JsNull))
            => pending'[f].opts = [where |-> conditions]
       /\ (conditions = [k \in {c} |-> In(v)] /\ pc[f] = "get"
             /\ pending[f].reply.state = "ok" /\ pending[f].opts = [where |-> conditions]
             /\ getDone(f))
            => outcome'[f] =
                 Returned("get",
                   [rows |-> SelectSeq(rows,
                      LAMBDA r : \E i \in 1..Len(v.arr) : r[c] = v.arr[i])])]_vars

\* whereIn("name", [1, 2]).get() on rows named 1, 2, 3 has returned the
\* first two
C16_Witness ==
  /\ Len(rows) = 3
  /\ outcome[1] = Returned("get", [rows |-> <<rows[1], rows[2]>>])
  /\ calls = MaxChain - 2

\* C19: count() returns the number of rows in the table, count(conditions)
\* the number of rows that match the conditions.
C19_CountMatches ==
  [][\A f \in Flows :
       (pc[f] = "count" /\ pending[f].reply.state = "ok" /\ countDone(f)) =>
         LET given == pending[f].given
             hit == {i \in 1..Len(rows) :
                       given = JsNull
                         \/ \A k \in DOMAIN given.obj : rows[i][k] = given.obj[k].eq}
         IN outcome'[f] = Returned("count", JsNum(Cardinality(hit)))]_vars

\* count({name: 1}) on six rows, two of them named 1, has returned 2
C19_Witness ==
  /\ Len(rows) = 6
  /\ outcome[1] = Returned("count", JsNum(2))

-----------------------------------------------------------------------------
(* getOrCreate and exists *)

\* the rows that carry the data
Carrying(data) == {i \in 1..Len(rows) : \A k \in DOMAIN data : rows[i][k] = data[k]}

\* flow f has returned from getOrCreate with a row
Got(f) == pc[f] = "idle" /\ outcome[f].op = "getOrCreate" /\ outcome[f].status = "return"

C18_ExistingRowRefused ==
  [][\A f \in Flows :
       /\ (pc[f] = "getOrCreate" /\ driverAnswers(f)) =>
            IF Carrying(pending[f].where) # {}
              THEN rows' = rows /\ ~pending'[f].reply.val.created
              ELSE /\ Len(rows') = Len(rows) + 1
                   /\ SubSeq(rows', 1, Len(rows)) = rows
                   /\ \A k \in DOMAIN pending[f].where :
                        rows'[Len(rows')][k] = pending[f].where[k]
                   /\ pending'[f].reply.val.created
                   /\ pending'[f].reply.val.item = rows'[Len(rows')]
       /\ (pc[f] = "getOrCreate" /\ pending[f].reply.state = "ok" /\ throwError
             /\ getOrCreateDone(f)) =>
            IF pending[f].reply.val.created
              THEN outcome'[f] = Returned("getOrCreate", [row |-> pending[f].reply.val.item])
              ELSE /\ outcome'[f].status = "raise"
                   /\ outcome'[f].err.name = "CreateError"
                   /\ outcome'[f].err.cause = ""
                   /\ rows' = rows]_vars

\* withError(true).getOrCreate({name: 1, phone: 1}) on the table that holds
\* that row has raised the CreateError
C18_Witness ==
  /\ outcome[1].op = "getOrCreate"
  /\ outcome[1].status = "raise"
  /\ outcome[1].err.name = "CreateError"
  /\ Len(rows) = 2
  /\ throwError

\* a row matches the conditions the caller of flow f passed
Found(f) ==
  \E i \in 1..Len(rows) :
    \A k \in DOMAIN pending[f].given.obj : rows[i][k] = pending[f].given.obj[k].eq

\* C20: an exists(conditions) call sends its own conditions as where, also
\* when it starts while another exists call on the same builder is awaiting
\* the driver; the driver's answer is a row iff a row matches the
\* conditions of that call, and the call resolves to true iff it was a row.
C20_ExistsAnswersItsOwnCall ==
  [][\A f \in Flows :
       /\ \A g \in SharedConditions :
            exists(f, g) => pending'[f].opts["where"] = g.obj
       /\ (pc[f] = "exists" /\ driverAnswers(f)) =>
            ((pending'[f].reply.val # JsNull) <=> Found(f))
       /\ (pc[f] = "exists" /\ pending[f].reply.state = "ok" /\ existsDone(f)) =>
            outcome'[f] = Returned("exists", JsBool(pending[f].reply.val # JsNull))]_vars

\* two exists calls are awaiting the driver together, the one answered with
\* a row, the other with none
C20_Witness ==
  /\ pc[1] = "exists" /\ pc[2] = "exists"
  /\ pending[1].given = JsObj([name |-> Eq(1)])
  /\ pending[2].given = JsObj([name |-> Eq(3)])
  /\ pending[1].reply.state = "ok" /\ pending[1].reply.val # JsNull
  /\ pending[2].reply = Answered(JsNull)

-----------------------------------------------------------------------------
(* What the driver is sent *)

\* option() has put no where into the overlay
NoOptionWhere == "where" \notin DOMAIN options \/ options["where"].ref # "opt"

\* flow f calls get, first, update or delete without explicit conditions
\* and the call reaches the driver
Unconditioned(f) ==
  /\ \/ \E a \in GetArgs : a[2] = JsNull /\ get(f, a[1], JsNull)
     \/ first(f)
     \/ \E p \in Payloads : update(f, p, JsNull, "")
     \/ delete(f, JsNull)
  /\ pending'[f] # NoRequest

\* C23 as stated: when option() has put no where into the overlay, a get,
\* first, update or delete called without explicit conditions sends the
\* driver a where equal to the conditions accumulated at that moment,
\* whatever calls came before, terminal calls with explicit conditions
\* that raised on a driver failure included.
C23_AccumulatedWhereIsSent ==
  [][\A f \in Flows :
       (NoOptionWhere /\ Unconditioned(f)) => pending'[f].opts["where"] = conditions]_vars

\* the driver calls a terminal call may make
DriverCall(op) ==
  CASE op = "create" -> {"create"}
    [] op = "insert" -> {"create", "bulkCreate"}
    [] op \in {"get", "getWhere"} -> {"findAll"}
    [] op = "getOrCreate" -> {"findOrCreate"}
    [] op = "find" -> {"findByPk"}
    [] op \in {"first", "exists"} -> {"findOne"}
    [] op = "update" -> {"update"}
    [] op \in {"delete", "truncate"} -> {"destroy"}

\* the request without its reply
Asked(req) == IF req = NoRequest THEN req ELSE [req EXCEPT !.reply = NoReply]

\* C22: a terminal call hands the driver one request, in the step of the
\* call, for the driver call of that operation (an array given to insert is
\* one bulkCreate, an object one create), and the request is not replaced
\* or repeated while the call is awaited; a call that raises in its own
\* step has issued none and the rows are as they were; and once the driver
\* has failed, the next step of the call raises to the caller and drops the
\* request.
C22_OneRequestNoRetry ==
  [][\A f \in Flows :
       /\ (pending[f] = NoRequest /\ pending'[f] # NoRequest) =>
            /\ calls' = calls - 1
            /\ pc[f] \in {"idle", "chained"}
            /\ pc'[f] \in Terminals
            /\ pending'[f].op \in DriverCall(pc'[f])
            /\ pending'[f].reply = NoReply
       /\ (pc[f] \notin Terminals /\ pc'[f] \in Terminals) => pending'[f] # NoRequest
       /\ \A d \in DataArgs \cup BulkArgs :
            ((pc'[f] = "insert" \/ outcome'[f].op = "insert") /\ insert(f, d)) =>
              IF IsArr(d) THEN pending'[f].op = "bulkCreate" /\ pending'[f].data = d.arr
              ELSE IF IsObj(d) THEN pending'[f].op = "create" /\ pending'[f].data = <<d.obj>>
              ELSE pending'[f] = NoRequest /\ outcome'[f].status = "raise"
       /\ pc[f] \in Terminals =>
            /\ pending'[f] = NoRequest \/ Asked(pending'[f]) = Asked(pending[f])
            /\ pending'[f] = NoRequest <=> pc'[f] = "idle"
            /\ pending[f].reply # NoReply =>
                 (pending'[f] = NoRequest \/ pending'[f] = pending[f])
       /\ (calls' = calls - 1 /\ pc'[f] = "idle" /\ outcome'[f].status = "raise") =>
            pending'[f] = NoRequest /\ rows' = rows
       /\ (pc[f] \in Terminals /\ pending[f].reply.state = "failed"
             /\ (pc'[f] # pc[f] \/ pending'[f] # pending[f])) =>
            /\ pc'[f] = "idle"
            /\ pending'[f] = NoRequest
            /\ outcome'[f].status = "raise"
            /\ rows' = rows]_vars

\* insert of an array of two rows is awaiting its one bulkCreate request,
\* which the driver has failed
C22_Witness ==
  /\ pc[1] = "insert"
  /\ pending[1].op = "bulkCreate"
  /\ Len(pending[1].data) = 2
  /\ pending[1].reply.state = "failed"

-----------------------------------------------------------------------------
(* Shared instance *)

\* flow g has never called the instance
Untouched(g) == pc[g] = "idle" /\ outcome[g] = NoOutcome

\* the request of flow f carries a condition that flow g built
Carries(f, g) ==
  /\ pending[f] # NoRequest
  /\ \E k \in DOMAIN pending[f].opts["where"] : pending[f].opts["where"][k] = Eq(g)

\* C21: the accumulated conditions are shared and unsynchronized: a get()
\* sends the conditions accumulated on the instance at that moment,
\* whichever flow built them, so a request may carry the other flow's
\* conditions; as long as the other flow has not called the instance, which
\* is the case of an instance of one's own, a request carries only the
\* conditions of its own flow.
C21_SharedConditionsRace ==
  [][\A f \in Flows :
       /\ (get(f, JsArr(<<>>), JsNull)) =>
            pending'[f].opts["where"] = conditions
       /\ \A g \in Flows \ {f} :
            (Carries(f, g)' /\ ~Carries(f, g)) => ~Untouched(g)
       /\ \A g \in Flows \ {f} :
            (Untouched(g) /\ pending'[f] # NoRequest) =>
              \A k \in DOMAIN pending'[f].opts["where"] :
                pending'[f].opts["where"][k] = Eq(f)]_vars

\* flow 1 is awaiting where("name", 1).get(); flow 2 has called get() and
\* its request carries the condition of flow 1
C21_Witness ==
  /\ pc[1] = "get" /\ pc[2] = "get"
  /\ pending[1].opts["where"] = [name |-> Eq(1)]
  /\ Carries(2, 1)

====
